---- MODULE Spec2Model ----
(***************************************************************************)
(* A model of the start page src/website/src/app/page.tsx: the Home        *)
(* component's React state, the two localStorage items it persists, the    *)
(* theme import / export / delete operations, the weather effect and the   *)
(* search form.                                                            *)
(*                                                                         *)
(* Conventions.  A JavaScript string whose characters matter (a colour, a  *)
(* query, an attribute's source text) is a sequence of one-character       *)
(* strings; a string that is only compared or concatenated (a theme name,  *)
(* a settings value) is a TLA+ string.  A JavaScript object is a record.   *)
(* A localStorage item is modelled by the JSON value its text denotes:     *)
(* JSON.stringify maps a value to the text denoting it and JSON.parse maps *)
(* that text back, or throws on text that denotes nothing.                 *)
(***************************************************************************)
EXTENDS Integers, Sequences, FiniteSets, TLC

----------------------------------------------------------------------------
(* Bounds of the model.                                                    *)

\* Files dropped on the page over one behaviour.
MaxDrops == 2
\* localStorage.setItem calls that throw over one behaviour.
MaxFailures == 1
\* Clicks on a settings option or on the weather button over one behaviour.
MaxClicks == 1
\* Length of a fill value / attribute source text in the round-trip model.
MaxFillLen == 4
\* Length of the text typed into the search box.
MaxQueryLen == 3
\* Weather codes are taken from -MaxCode..MaxCode.
MaxCode == 120
\* Temperatures, in degrees Celsius, are taken from -MaxTemp..MaxTemp.
MaxTemp == 70

VARIABLES
  page,            \* "closed" | "up" | "crashed" (render threw) | "left" (navigated away)
  hpSettings,      \* localStorage item "hpSettings"
  hpCustomThemes,  \* localStorage item "hpCustomThemes"
  settings,        \* useState<Settings>
  customThemes,    \* useState<ThemeEntry[]>; a JS value: whatever initCustomThemes returned
  showSettings,    \* useState(false)
  showThemeModal,  \* useState(false)
  selected,        \* ThemeModal's useState(activeTheme.name); "" while the modal is unmounted
  focus,           \* document.activeElement: "input" | "modal" (in the modal) | "page" (any other)
  pending,         \* onDrop calls suspended at await file.text(), each with the closure it runs in
  query,           \* useState("")
  navTarget,       \* the URL assigned to window.location.href, <<>> if none
  wpc,             \* where the weather effect is
  geoResp,         \* the reverse-geocode request's outcome, once it has one
  wxResp,          \* the weather request's outcome, once it has one
  weather,         \* useState<WeatherData | null>
  weatherErr,      \* useState(false)
  svgIn,           \* round trip: the SVG text that was imported
  imported,        \* round trip: parseSVGTheme's result on it
  exported,        \* round trip: generateSVG's text for the imported colours
  reimported,      \* round trip: parseSVGTheme's result on the exported text
  drops,           \* files dropped so far (bounded by MaxDrops)
  failures,        \* setItem calls that threw so far (bounded by MaxFailures)
  clicks,          \* settings options clicked so far (bounded by MaxClicks)
  last             \* the last operation and what it was given

vars == <<page, hpSettings, hpCustomThemes, settings, customThemes, showSettings,
          showThemeModal, selected, focus, pending, query, navTarget, wpc, geoResp, wxResp,
          weather, weatherErr, svgIn, imported, exported, reimported, drops,
          failures, clicks, last>>

----------------------------------------------------------------------------
(* Types and theme data (page.tsx 14-58).                                  *)

\* The keys of ThemeColors, in the order parseSVGTheme reads them.
ThemeKeys ==
  <<"background", "f_high", "f_med", "f_low", "f_inv", "b_high", "b_med", "b_low", "b_inv">>

Colors(bg, fh, fm, fl, fi, bh, bm, bl, bi) ==
  [background |-> bg, f_high |-> fh, f_med |-> fm, f_low |-> fl, f_inv |-> fi,
   b_high |-> bh, b_med |-> bm, b_low |-> bl, b_inv |-> bi]

\* A built-in ThemeEntry; isCustom is absent, which reads as false.
Builtin(n, d, c, cols) ==
  [name |-> n, display |-> d, category |-> c, colors |-> cols, isCustom |-> FALSE]

BUILTIN_THEMES ==
  <<
     Builtin("dark", "Dark", "Original",
       Colors(<<"#","0","a","0","a","0","a">>, <<"#","f","f","f","f","f","f">>, <<"#","a","3","a","3","a","3">>,
              <<"#","7","3","7","3","7","3">>, <<"#","0","a","0","a","0","a">>, <<"#","4","0","4","0","4","0">>,
              <<"#","2","6","2","6","2","6">>, <<"#","1","7","1","7","1","7">>, <<"#","4","a","d","e","8","0">>)),
     Builtin("light", "Light", "Original",
       Colors(<<"#","f","f","f","f","f","f">>, <<"#","0","a","0","a","0","a">>, <<"#","5","2","5","2","5","2">>,
              <<"#","7","3","7","3","7","3">>, <<"#","f","f","f","f","f","f">>, <<"#","d","4","d","4","d","4">>,
              <<"#","e","5","e","5","e","5">>, <<"#","f","5","f","5","f","5">>, <<"#","3","b","8","2","f","6">>)),
     Builtin("slate", "Slate", "Original",
       Colors(<<"#","0","f","1","7","2","a">>, <<"#","f","1","f","5","f","9">>, <<"#","c","b","d","5","e","1">>,
              <<"#","9","4","a","3","b","8">>, <<"#","0","f","1","7","2","a">>, <<"#","4","7","5","5","6","9">>,
              <<"#","3","3","4","1","5","5">>, <<"#","1","e","2","9","3","b">>, <<"#","3","8","b","d","f","8">>)),
     Builtin("boysenberry", "Boysenberry", "Hundred Rabbits",
       Colors(<<"#","1","7","1","7","1","7">>, <<"#","e","f","e","f","e","f">>, <<"#","9","9","9","9","9","9">>,
              <<"#","8","7","3","2","6","0">>, <<"#","9","1","9","1","9","1">>, <<"#","3","7","3","7","3","7">>,
              <<"#","2","7","2","7","2","7">>, <<"#","0","0","0","0","0","0">>, <<"#","8","7","3","2","6","0">>)),
     Builtin("gotham", "Gotham", "Hundred Rabbits",
       Colors(<<"#","0","A","0","F","1","4">>, <<"#","F","F","F","F","F","F">>, <<"#","9","8","D","1","C","E">>,
              <<"#","E","D","B","5","4","B">>, <<"#","C","3","3","0","2","7">>, <<"#","0","9","3","7","4","8">>,
              <<"#","0","8","1","F","2","D">>, <<"#","1","0","1","5","1","B">>, <<"#","8","F","A","F","9","F">>)),
     Builtin("noir", "Noir", "Hundred Rabbits",
       Colors(<<"#","2","2","2","2","2","2">>, <<"#","f","f","f","f","f","f">>, <<"#","c","c","c","c","c","c">>,
              <<"#","9","9","9","9","9","9">>, <<"#","f","f","f","f","f","f">>, <<"#","8","8","8","8","8","8">>,
              <<"#","6","6","6","6","6","6">>, <<"#","4","4","4","4","4","4">>, <<"#","0","0","0","0","0","0">>)),
     Builtin("nord", "Nord", "Hundred Rabbits",
       Colors(<<"#","2","E","3","4","4","0">>, <<"#","E","C","E","F","F","4">>, <<"#","9","D","C","4","C","3">>,
              <<"#","B","4","B","8","C","0">>, <<"#","5","E","8","1","A","C">>, <<"#","5","E","8","1","A","C">>,
              <<"#","4","3","4","C","5","E">>, <<"#","3","B","4","2","5","2">>, <<"#","A","B","C","D","C","C">>)),
     Builtin("op-1", "OP-1", "Hundred Rabbits",
       Colors(<<"#","0","E","0","D","1","1">>, <<"#","E","F","E","F","E","F">>, <<"#","2","6","9","3","6","F">>,
              <<"#","A","5","4","3","5","A">>, <<"#","0","E","0","D","1","1">>, <<"#","1","9","1","A","2","6">>,
              <<"#","1","4","1","5","1","F">>, <<"#","1","0","1","1","1","9">>, <<"#","9","F","9","F","B","3">>)),
     Builtin("teenage", "Teenage", "Hundred Rabbits",
       Colors(<<"#","a","1","a","1","a","1">>, <<"#","2","2","2","2","2","2">>, <<"#","e","0","0","b","3","0">>,
              <<"#","8","8","8","8","8","8">>, <<"#","f","f","f","f","f","f">>, <<"#","5","5","5","5","5","5">>,
              <<"#","f","b","b","a","2","d">>, <<"#","b","3","b","3","b","3">>, <<"#","0","e","7","2","4","2">>)),
     Builtin("zenburn", "Zenburn", "Hundred Rabbits",
       Colors(<<"#","4","6","4","6","4","6">>, <<"#","D","C","D","C","C","C">>, <<"#","D","C","A","3","A","3">>,
              <<"#","7","F","9","F","7","F">>, <<"#","0","0","0","D","1","8">>, <<"#","2","6","2","6","2","6">>,
              <<"#","3","3","3","3","3","3">>, <<"#","3","F","3","F","3","F">>, <<"#","8","F","A","F","9","F">>))
  >>

----------------------------------------------------------------------------
(* JavaScript values and localStorage items.                               *)

JSNull == [t |-> "null"]
JSNumber == [t |-> "number"]
JSString(chars) == [t |-> "string", chars |-> chars]
JSObject(o) == [t |-> "object", o |-> o]
JSArray(items) == [t |-> "array", items |-> items]

\* What localStorage.getItem returns: null, or a text.  A text is "", or
\* denotes no JSON value, or denotes the JSON value val.
NoItem == [kind |-> "absent"]
EmptyText == [kind |-> "empty"]
GarbageText == [kind |-> "garbage"]
JSONstringify(v) == [kind |-> "json", val |-> v]

\* `if (s)`: a non-null, non-empty string.
Truthy(item) == item.kind \in {"garbage", "json"}
\* JSON.parse throws on a text that denotes no JSON value.
JSONparseThrows(item) == item.kind # "json"
JSONparse(item) == item.val

\* The own enumerable properties an object spread `...v` copies: those of an
\* object, the index properties of a string, none of null or a number.
IndexKey(i) == ToString(i - 1)

OwnProps(v) ==
  CASE v.t = "object" -> v.o
    [] v.t = "string" ->
         [k \in {IndexKey(i) : i \in 1..Len(v.chars)} |->
            v.chars[CHOOSE i \in 1..Len(v.chars) : IndexKey(i) = k]]
    [] v.t = "array" ->
         [k \in {IndexKey(i) : i \in 1..Len(v.items)} |->
            v.items[CHOOSE i \in 1..Len(v.items) : IndexKey(i) = k]]
    [] OTHER -> <<>>

\* { ...a, ...b } on records.
Spread(a, b) ==
  [k \in (DOMAIN a) \cup (DOMAIN b) |-> IF k \in DOMAIN b THEN b[k] ELSE a[k]]

----------------------------------------------------------------------------
(* Theme helpers (page.tsx 77-102).                                        *)

\* An SVG text: whether everything but the fill attributes is well-formed
\* XML, and its elements in document order, each with its id and its fill
\* attribute if it has one (fill = <<>> if not).  An attribute is the quote
\* character that delimits it and the source text between the quotes.
Attr(q, raw) == [q |-> q, raw |-> raw]
Elem(id, fill) == [id |-> id, fill |-> fill]

\* The source text between the quotes is well-formed: it holds neither the
\* delimiting quote (the text after it would have to be another attribute)
\* nor "<", and every "&" starts the entity reference "&lt;".
AttrWellFormed(a) ==
  \A i \in 1..Len(a.raw) :
    /\ a.raw[i] # a.q
    /\ a.raw[i] # "<"
    /\ a.raw[i] = "&" =>
         /\ i + 3 <= Len(a.raw)
         /\ a.raw[i + 1] = "l" /\ a.raw[i + 2] = "t" /\ a.raw[i + 3] = ";"

\* The attribute's value: its source text with entity references replaced.
RECURSIVE AttrValue(_)
AttrValue(raw) ==
  IF raw = <<>> THEN <<>>
  ELSE IF Head(raw) = "&" THEN <<"<">> \o AttrValue(SubSeq(raw, 5, Len(raw)))
  ELSE <<Head(raw)>> \o AttrValue(Tail(raw))

\* DOMParser.parseFromString(svg, "image/svg+xml") yields a parsererror.
ParserError(svg) ==
  \/ ~svg.wf
  \/ \E i \in 1..Len(svg.elems) :
       svg.elems[i].fill # <<>> /\ ~AttrWellFormed(svg.elems[i].fill[1])

\* doc.getElementById(id)?.getAttribute("fill") ?? null, null being <<>> and
\* a string s being <<s>>.
GetFill(svg, id) ==
  LET at == {i \in 1..Len(svg.elems) : svg.elems[i].id = id}
  IN  IF at = {} THEN <<>>
      ELSE LET e == svg.elems[CHOOSE i \in at : \A j \in at : i <= j]
           IN  IF e.fill = <<>> THEN <<>> ELSE <<AttrValue(e.fill[1].raw)>>

\* !x for x a string or null.
Falsy(x) == x = <<>> \/ x[1] = <<>>

NoColors == [ok |-> FALSE]

\* parseSVGTheme without its parsererror test (line 80).
parseSVGTheme_Unchecked(svg) ==
  LET fill(id) == GetFill(svg, id)
  IN  IF \E i \in 1..Len(ThemeKeys) : Falsy(fill(ThemeKeys[i]))
      THEN NoColors
      ELSE [ok |-> TRUE,
            colors |-> [k \in {ThemeKeys[i] : i \in 1..Len(ThemeKeys)} |-> fill(k)[1]]]

parseSVGTheme(svg) ==
  IF ParserError(svg) THEN NoColors
  ELSE
    LET background == GetFill(svg, "background")
        f_high == GetFill(svg, "f_high")
        f_med  == GetFill(svg, "f_med")
        f_low  == GetFill(svg, "f_low")
        f_inv  == GetFill(svg, "f_inv")
        b_high == GetFill(svg, "b_high")
        b_med  == GetFill(svg, "b_med")
        b_low  == GetFill(svg, "b_low")
        b_inv  == GetFill(svg, "b_inv")
    IN  IF \/ Falsy(background) \/ Falsy(f_high) \/ Falsy(f_med) \/ Falsy(f_low)
           \/ Falsy(f_inv) \/ Falsy(b_high) \/ Falsy(b_med) \/ Falsy(b_low)
           \/ Falsy(b_inv)
        THEN NoColors
        ELSE [ok |-> TRUE,
              colors |-> Colors(background[1], f_high[1], f_med[1], f_low[1], f_inv[1],
                                b_high[1], b_med[1], b_low[1], b_inv[1])]

\* The template puts each colour, as it is, between single quotes.
generateSVG(name, colors) ==
  [wf |-> TRUE,
   elems |-> [i \in 1..Len(ThemeKeys) |->
                Elem(ThemeKeys[i], <<Attr("'", colors[ThemeKeys[i]])>>)]]

----------------------------------------------------------------------------
(* Settings and the two loaders (page.tsx 129-147).                        *)

DEFAULT_SETTINGS ==
  [tempUnit |-> "F", timeFormat |-> "24h", searchEngine |-> "google", themeName |-> "dark"]

initSettings(item) ==
  IF Truthy(item) /\ ~JSONparseThrows(item)
  THEN Spread(DEFAULT_SETTINGS, OwnProps(JSONparse(item)))
  ELSE DEFAULT_SETTINGS

initCustomThemes(item) ==
  IF Truthy(item) /\ ~JSONparseThrows(item)
  THEN JSONparse(item)
  ELSE JSArray(<<>>)

----------------------------------------------------------------------------
(* What Home derives from its state at each render (page.tsx 180-181,      *)
(* 303-306).  A ThemeEntry is a record with the fields of the interface;   *)
(* any other value found in a list is one of the tagged values above.      *)

\* The values `...v` yields in an array literal; v must be iterable.
Iterable(v) == v.t \in {"array", "string"}
SpreadItems(v) ==
  IF v.t = "array" THEN v.items
  ELSE [i \in 1..Len(v.chars) |-> JSString(<<v.chars[i]>>)]

\* t.name === n: the property is undefined on a value that has none.
HasName(item, n) == "name" \in DOMAIN item /\ item.name = n

allThemesOf(custom) == BUILTIN_THEMES \o SpreadItems(custom)

\* themes.find(t => t.name === n), <<>> being undefined.
FindTheme(themes, n) ==
  LET at == {i \in 1..Len(themes) : HasName(themes[i], n)}
  IN  IF at = {} THEN <<>> ELSE <<themes[CHOOSE i \in at : \A j \in at : i <= j]>>

activeThemeOf(custom, s) ==
  LET found == FindTheme(allThemesOf(custom), s.themeName)
  IN  IF found = <<>> THEN BUILTIN_THEMES[1] ELSE found[1]

\* Home's render throws a TypeError: customThemes is spread into allThemes,
\* and `t.category` is read of every item of it.
RenderThrows(custom) ==
  \/ ~Iterable(custom)
  \/ \E i \in 1..Len(SpreadItems(custom)) : SpreadItems(custom)[i] = JSNull

allThemes == allThemesOf(customThemes)
activeTheme == activeThemeOf(customThemes, settings)

ThemeNames(themes) ==
  {themes[i].name : i \in {j \in 1..Len(themes) : "name" \in DOMAIN themes[j]}}

----------------------------------------------------------------------------
(* Dropped files (page.tsx 250-264).  A file name is the sequence of its   *)
(* segments, a segment being ".svg" or a text that holds no ".svg".        *)

endsWithSvg(name) == name # <<>> /\ name[Len(name)] = ".svg"

RECURSIVE Join(_)
Join(segs) == IF segs = <<>> THEN "" ELSE Head(segs) \o Join(Tail(segs))

\* name.replace(".svg", ""): the first occurrence only.
RECURSIVE replaceFirstSvg(_)
replaceFirstSvg(name) ==
  IF name = <<>> THEN <<>>
  ELSE IF Head(name) = ".svg" THEN Tail(name)
  ELSE <<Head(name)>> \o replaceFirstSvg(Tail(name))

\* let name = base, i = 1; while (themes.find(...)) name = `${base}-${i++}`
RECURSIVE Suffixed(_, _, _)
Suffixed(base, i, themes) ==
  LET name == base \o "-" \o ToString(i)
  IN  IF FindTheme(themes, name) # <<>> THEN Suffixed(base, i + 1, themes) ELSE name

uniqueName(base, themes) ==
  IF FindTheme(themes, base) # <<>> THEN Suffixed(base, 1, themes) ELSE base

CustomEntry(name, colors) ==
  [name |-> name, display |-> name, category |-> "Custom", colors |-> colors,
   isCustom |-> TRUE]

----------------------------------------------------------------------------
(* The page: load, saving, the settings panel (page.tsx 166-194, 353-384). *)

NoFile == [name |-> <<>>, kind |-> "none"]
\* The record kept of the last operation: its name, the file it was given,
\* and how its write of hpCustomThemes (cw) and of hpSettings (sw) ended:
\* "ok", "threw" or "none".
Last(op, file, cw, sw) == [op |-> op, file |-> file, cw |-> cw, sw |-> sw]
Outcome(ok) == IF ok THEN "ok" ELSE "threw"
Thrown(ok) == IF ok THEN 0 ELSE 1

NoResponse == [kind |-> "none"]
NoWeather == [t |-> "null"]
NoColorsYet == [ok |-> FALSE, colors |-> <<>>]
NoSvg == [wf |-> FALSE, elems |-> <<>>]

Up == page = "up"

\* localStorage.setItem inside try { } catch {}: the item afterwards.
setItem(old, text, ok) == IF ok THEN text ELSE old

\* saveSettings writing the settings of the render instead of its argument.
saveSettings_Stale(s, ok) ==
  /\ settings' = s
  /\ hpSettings' = setItem(hpSettings, JSONstringify(JSObject(settings)), ok)

saveSettings(s, ok) ==
  /\ settings' = s
  /\ hpSettings' = setItem(hpSettings, JSONstringify(JSObject(s)), ok)

\* saveCustomThemes that keeps the old list in memory when the write throws.
saveCustomThemes_AllOrNothing(themes, ok) ==
  /\ customThemes' = IF ok THEN themes ELSE customThemes
  /\ hpCustomThemes' = setItem(hpCustomThemes, JSONstringify(themes), ok)

saveCustomThemes(themes, ok) ==
  /\ customThemes' = themes
  /\ hpCustomThemes' = setItem(hpCustomThemes, JSONstringify(themes), ok)

\* withThemeName that never resets to the default theme.
withThemeName_NoReset(s, name) ==
  IF name = "dark" THEN s ELSE [s EXCEPT !.themeName = name]

\* { ...s, themeName: name }
withThemeName(s, name) == Spread(s, [themeName |-> name])

\* withoutTheme with its test inverted: filter(t => t.name === name).
withoutTheme_Inverted(custom, name) ==
  LET Keep(t) == HasName(t, name)
  IN  JSArray(SelectSeq(custom.items, Keep))

\* customThemes.filter(t => t.name !== name)
withoutTheme(custom, name) ==
  LET Keep(t) == ~HasName(t, name)
  IN  JSArray(SelectSeq(custom.items, Keep))

RoundTripVars == <<svgIn, imported, exported, reimported>>
WeatherVars == <<wpc, geoResp, wxResp, weather, weatherErr>>
SearchVars == <<query, navTarget>>
PanelVars == <<showSettings, showThemeModal, selected, focus>>
StoreVars == <<hpSettings, hpCustomThemes>>

\* The document is loaded: every useState initialiser runs on what storage
\* holds, and the first render either succeeds or throws.
PageLoad ==
  /\ settings' = initSettings(hpSettings)
  /\ customThemes' = initCustomThemes(hpCustomThemes)
  /\ page' = IF RenderThrows(initCustomThemes(hpCustomThemes)) THEN "crashed" ELSE "up"
  /\ showSettings' = FALSE
  /\ showThemeModal' = FALSE
  /\ selected' = ""
  /\ focus' = IF RenderThrows(initCustomThemes(hpCustomThemes)) THEN "page" ELSE "input"
  /\ pending' = <<>>
  /\ query' = <<>>
  /\ navTarget' = <<>>
  /\ wpc' = "mount"
  /\ geoResp' = NoResponse
  /\ wxResp' = NoResponse
  /\ weather' = NoWeather
  /\ weatherErr' = FALSE
  /\ last' = Last("load", NoFile, "none", "none")
  /\ UNCHANGED <<StoreVars, RoundTripVars, drops, failures, clicks>>

\* The settings button (353), the mousedown outside the panel (223-226).
ToggleSettings ==
  /\ Up /\ ~showThemeModal
  /\ showSettings' = ~showSettings
  /\ last' = Last("panel", NoFile, "none", "none")
  /\ UNCHANGED <<page, StoreVars, settings, customThemes, showThemeModal, selected,
                 focus, pending, SearchVars, WeatherVars, RoundTripVars, drops, failures, clicks>>

OutsideMouseDown ==
  /\ Up /\ showSettings
  /\ showSettings' = FALSE
  /\ last' = Last("panel", NoFile, "none", "none")
  /\ UNCHANGED <<page, StoreVars, settings, customThemes, showThemeModal, selected,
                 focus, pending, SearchVars, WeatherVars, RoundTripVars, drops, failures, clicks>>

\* A SettingOpt's onClick: saveSettings({ ...settings, <field>: v }).
SettingClick(field, v, ok) ==
  /\ Up /\ showSettings
  /\ failures + Thrown(ok) <= MaxFailures
  /\ clicks < MaxClicks
  /\ saveSettings(Spread(settings, field :> v), ok)
  /\ failures' = failures + Thrown(ok)
  /\ clicks' = clicks + 1
  /\ last' = Last("setting", NoFile, "none", Outcome(ok))
  /\ UNCHANGED <<page, hpCustomThemes, customThemes, PanelVars, pending, SearchVars,
                 WeatherVars, RoundTripVars, drops>>

SetSearchEngine(e, ok) == SettingClick("searchEngine", e, ok)
SetTempUnit(u, ok) == SettingClick("tempUnit", u, ok)
SetTimeFormat(f, ok) == SettingClick("timeFormat", f, ok)

\* The weather button's onClick (292-293, 446); it is rendered once weather is set.
toggleTempUnit(ok) ==
  /\ Up /\ weather # NoWeather /\ ~showThemeModal
  /\ failures + Thrown(ok) <= MaxFailures
  /\ clicks < MaxClicks
  /\ saveSettings(Spread(settings,
                         [tempUnit |-> IF settings.tempUnit = "F" THEN "C" ELSE "F"]), ok)
  /\ failures' = failures + Thrown(ok)
  /\ clicks' = clicks + 1
  /\ last' = Last("toggleUnit", NoFile, "none", Outcome(ok))
  /\ UNCHANGED <<page, hpCustomThemes, customThemes, PanelVars, pending, SearchVars,
                 WeatherVars, RoundTripVars, drops>>

----------------------------------------------------------------------------
(* The theme modal (page.tsx 319-339, 384, 477-507).                       *)

\* The theme row's button: the modal mounts with selected = activeTheme.name.
OpenThemeModal ==
  /\ Up /\ showSettings
  /\ showSettings' = FALSE
  /\ showThemeModal' = TRUE
  /\ selected' = activeTheme.name
  /\ last' = Last("panel", NoFile, "none", "none")
  /\ UNCHANGED <<page, StoreVars, settings, customThemes, focus, pending, SearchVars,
                 WeatherVars, RoundTripVars, drops, failures, clicks>>

\* The element that has focus is removed with the modal: focus goes to body.
unmountModal ==
  /\ selected' = ""
  /\ focus' = IF focus = "modal" THEN "page" ELSE focus

\* onClose, or a mousedown on the backdrop: the modal unmounts.
CloseThemeModal ==
  /\ Up /\ showThemeModal
  /\ showThemeModal' = FALSE
  /\ unmountModal
  /\ last' = Last("panel", NoFile, "none", "none")
  /\ UNCHANGED <<page, StoreVars, settings, customThemes, showSettings, pending,
                 SearchVars, WeatherVars, RoundTripVars, drops, failures, clicks>>

\* handleSelect(name), name the value of one of the <option>s.
handleSelect(name, ok) ==
  /\ Up /\ showThemeModal
  /\ name \in ThemeNames(allThemes)
  /\ failures + Thrown(ok) <= MaxFailures
  /\ selected' = name
  /\ saveSettings(withThemeName(settings, name), ok)
  /\ failures' = failures + Thrown(ok)
  /\ last' = Last("select", NoFile, "none", Outcome(ok))
  /\ UNCHANGED <<page, hpCustomThemes, customThemes, showSettings, showThemeModal,
                 focus, pending, SearchVars, WeatherVars, RoundTripVars, drops, clicks>>

\* handleDelete: onDelete(selected), setSelected("dark"), onSelect("dark").
\* onDelete saves the filtered list and, if the deleted theme is the active
\* one, saves settings; onSelect saves settings again.  Both saveSettings
\* calls run in the closure of the same render, so both spread the same
\* settings, and the state keeps the second call's value.
handleDelete(okC, okA, okS) ==
  /\ Up /\ showThemeModal
  /\ FindTheme(SpreadItems(customThemes), selected) # <<>>
  /\ LET active == settings.themeName = selected
         reset == withThemeName(settings, "dark")
         afterOnDelete ==
           IF active
           THEN setItem(hpSettings, JSONstringify(JSObject(reset)), okA)
           ELSE hpSettings
         thrown == Thrown(okC) + (IF active THEN Thrown(okA) ELSE 0) + Thrown(okS)
     IN  /\ active \/ okA
         /\ failures + thrown <= MaxFailures
         /\ saveCustomThemes(withoutTheme(customThemes, selected), okC)
         /\ settings' = withThemeName(settings, "dark")
         /\ hpSettings' = setItem(afterOnDelete,
                                  JSONstringify(JSObject(withThemeName(settings, "dark"))), okS)
         /\ failures' = failures + thrown
         /\ last' = Last(IF active THEN "deleteActive" ELSE "deleteOther",
                         [name |-> <<selected>>, kind |-> "theme"],
                         Outcome(okC), Outcome(okS))
  /\ selected' = "dark"
  /\ UNCHANGED <<page, showSettings, showThemeModal, focus, pending, SearchVars, WeatherVars,
                 RoundTripVars, drops, clicks>>

----------------------------------------------------------------------------
(* Keyboard and focus (page.tsx 232-244, 353).                             *)

\* The keydown handler on an Escape key.
keydownEscape ==
  /\ Up
  /\ IF showThemeModal
     THEN /\ showThemeModal' = FALSE
          /\ unmountModal
          /\ UNCHANGED showSettings
     ELSE /\ showSettings' = FALSE
          /\ focus' = "input"
          /\ UNCHANGED <<showThemeModal, selected>>
  /\ last' = Last("escape", NoFile, "none", "none")
  /\ UNCHANGED <<page, StoreVars, settings, customThemes, pending, SearchVars,
                 WeatherVars, RoundTripVars, drops, failures, clicks>>

\* The keydown handler on any other key: one character or a named key,
\* with or without Meta / Ctrl held.
keydownOther(oneChar, metaOrCtrl) ==
  /\ Up
  /\ focus' = IF ~showThemeModal /\ focus # "input" /\ oneChar /\ ~metaOrCtrl
              THEN "input"
              ELSE focus
  /\ last' = Last("key", NoFile, "none", "none")
  /\ UNCHANGED <<page, StoreVars, settings, customThemes, showSettings, showThemeModal,
                 selected, pending, SearchVars, WeatherVars, RoundTripVars, drops,
                 failures, clicks>>

\* The user moves the focus, with Tab or with the pointer: to the input, to
\* a control of the open modal, or to another element of the page.
focusMoves(to) ==
  /\ Up
  /\ to # focus
  /\ to = "modal" => showThemeModal
  /\ focus' = to
  /\ last' = Last("focus", NoFile, "none", "none")
  /\ UNCHANGED <<page, StoreVars, settings, customThemes, showSettings, showThemeModal,
                 selected, pending, SearchVars, WeatherVars, RoundTripVars, drops,
                 failures, clicks>>

\* The settings button activated from the keyboard while it has focus; the
\* modal's backdrop covers it for the pointer only.
ToggleSettingsByKey ==
  /\ Up /\ showThemeModal /\ focus = "page"
  /\ showSettings' = ~showSettings
  /\ last' = Last("panel", NoFile, "none", "none")
  /\ UNCHANGED <<page, StoreVars, settings, customThemes, showThemeModal, selected,
                 focus, pending, SearchVars, WeatherVars, RoundTripVars, drops, failures,
                 clicks>>

----------------------------------------------------------------------------
(* Drag and drop of an SVG theme (page.tsx 247-273).                       *)

\* onDrop up to `await file.text()`.  The handler is the one registered by
\* the effect of the last render, so customThemes, settings and allThemes
\* are that render's values in all of the call, after the await too.
onDrop(file) ==
  /\ Up
  /\ drops < MaxDrops
  /\ drops' = drops + 1
  /\ IF ~endsWithSvg(file.name)
     THEN /\ pending' = pending
          /\ last' = Last("dropIgnored", file, "none", "none")
     ELSE /\ pending' = Append(pending, [file |-> file, customThemes |-> customThemes,
                                         settings |-> settings])
          /\ last' = Last("drop", file, "none", "none")
  /\ UNCHANGED <<page, StoreVars, settings, customThemes, PanelVars, SearchVars,
                 WeatherVars, RoundTripVars, failures, clicks>>

RemoveAt(s, i) == SubSeq(s, 1, i - 1) \o SubSeq(s, i + 1, Len(s))

\* The rest of the i-th suspended onDrop call: the file's text has been read.
onDropRead(i, okC, okS) ==
  /\ Up
  /\ i \in 1..Len(pending)
  /\ pending' = RemoveAt(pending, i)
  /\ LET c == pending[i]
         parsed == parseSVGTheme(c.file.text)
     IN  IF ~parsed.ok
         THEN /\ okC /\ okS
              /\ last' = Last("readIgnored", c.file, "none", "none")
              /\ UNCHANGED <<StoreVars, settings, customThemes, failures>>
         ELSE LET base == Join(replaceFirstSvg(c.file.name))
                  name == uniqueName(base, allThemesOf(c.customThemes))
                  entry == CustomEntry(name, parsed.colors)
                  updated == JSArray(Append(c.customThemes.items, entry))
              IN  /\ failures + Thrown(okC) + Thrown(okS) <= MaxFailures
                  /\ saveCustomThemes(updated, okC)
                  /\ saveSettings(withThemeName(c.settings, name), okS)
                  /\ failures' = failures + Thrown(okC) + Thrown(okS)
                  /\ last' = Last("import", c.file, Outcome(okC), Outcome(okS))
  /\ UNCHANGED <<page, PanelVars, SearchVars, WeatherVars, RoundTripVars, drops, clicks>>

----------------------------------------------------------------------------
(* Weather (page.tsx 114-125, 203-219, 445-461).                           *)

\* A { label, icon } pair; the icon glyphs are written by ASCII names.
Label(label, icon) == [label |-> label, icon |-> icon]

describeWMO(code) ==
  IF code = 0 THEN Label("clear", "o")
  ELSE IF code <= 2 THEN Label("partly cloudy", "half")
  ELSE IF code = 3 THEN Label("overcast", "full")
  ELSE IF code <= 49 THEN Label("foggy", "waves")
  ELSE IF code <= 59 THEN Label("drizzle", "dot")
  ELSE IF code <= 69 THEN Label("rain", "down")
  ELSE IF code <= 79 THEN Label("snow", "star")
  ELSE IF code <= 84 THEN Label("showers", "downopen")
  ELSE IF code <= 99 THEN Label("storm", "bolt")
  ELSE Label("unknown", "?")

\* describeWMO of a property value: a number <<n>>, or undefined <<>>, of
\* which every comparison is false.
describeWMOOf(v) == IF v = <<>> THEN Label("unknown", "?") ELSE describeWMO(v[1])

\* Math.round of a temperature given in tenths of a degree: floor(x + 0.5);
\* of undefined it is NaN, <<>>.
MathRoundTenths(v) == IF v = <<>> THEN <<>> ELSE <<(v[1] + 5) \div 10>>

\* A fetch ends in a network error (the promise rejects) or in a response
\* with a status (ok or not) and a body text.
NetworkError == [kind |-> "networkError"]
Response(ok, body) == [kind |-> "response", ok |-> ok, body |-> body]

\* geo.address?.city || geo.address?.town || ... || "here", geo not null.
Prop(o, k) == IF k \in DOMAIN o THEN o[k] ELSE ""
cityOf(geo) ==
  LET a == IF geo.t = "object" /\ "address" \in DOMAIN geo.o THEN geo.o.address ELSE <<>>
  IN  IF Prop(a, "city") # "" THEN a.city
      ELSE IF Prop(a, "town") # "" THEN a.town
      ELSE IF Prop(a, "village") # "" THEN a.village
      ELSE IF Prop(a, "county") # "" THEN a.county
      ELSE "here"

\* fetch(...).then(r => r.json()) rejects, or reading the value throws.
geocodeThrows(r) ==
  \/ r.kind = "networkError"
  \/ JSONparseThrows(r.body)
  \/ JSONparse(r.body) = JSNull

weatherThrows(r) ==
  \/ r.kind = "networkError"
  \/ JSONparseThrows(r.body)
  \/ JSONparse(r.body) = JSNull
  \/ JSONparse(r.body).t # "object"
  \/ "current_weather" \notin DOMAIN JSONparse(r.body).o

WeatherData(temp, condition, icon, city) ==
  [t |-> "data", temp |-> temp, condition |-> condition, icon |-> icon, city |-> city]

\* displayTemp without the offset of the Fahrenheit scale.
displayTemp_NoOffset(t) ==
  IF settings.tempUnit = "F"
  THEN [n |-> (18 * t + 5) \div 10, unit |-> "F"]
  ELSE [n |-> t, unit |-> "C"]

\* displayTemp (288-290) of an integer: Math.round(t * 9/5 + 32) is
\* floor(t * 9/5 + 32 + 1/2), that is floor((18 t + 325) / 10).
displayTemp(t) ==
  IF settings.tempUnit = "F"
  THEN [n |-> (18 * t + 325) \div 10, unit |-> "F"]
  ELSE [n |-> t, unit |-> "C"]

\* The temperature on the weather button (452), weather.temp being a number.
shownTemp == displayTemp(weather.temp[1])

\* What the bottom bar shows (445-461).
weatherDisplay ==
  IF weather # NoWeather THEN "weather"
  ELSE IF weatherErr THEN "unavailable"
  ELSE "locating"

WeatherFrame ==
  UNCHANGED <<page, StoreVars, settings, customThemes, PanelVars, pending, SearchVars,
              RoundTripVars, drops, failures, clicks>>

\* The effect at mount: no geolocation API, or a position request.
weatherEffect(supported) ==
  /\ Up /\ wpc = "mount"
  /\ wpc' = IF supported THEN "locating" ELSE "timer"
  /\ last' = Last("weatherEffect", NoFile, "none", "none")
  /\ UNCHANGED <<geoResp, wxResp, weather, weatherErr>>
  /\ WeatherFrame

\* setTimeout(() => setWeatherErr(true), 0)
weatherTimer ==
  /\ Up /\ wpc = "timer"
  /\ weatherErr' = TRUE
  /\ wpc' = "done"
  /\ last' = Last("geoUnsupported", NoFile, "none", "none")
  /\ UNCHANGED <<geoResp, wxResp, weather>>
  /\ WeatherFrame

\* The error callback: permission denied, position unavailable, or the 8 s timeout.
geoError ==
  /\ Up /\ wpc = "locating"
  /\ weatherErr' = TRUE
  /\ wpc' = "done"
  /\ last' = Last("geoError", NoFile, "none", "none")
  /\ UNCHANGED <<geoResp, wxResp, weather>>
  /\ WeatherFrame

\* The success callback up to its first await.
geoSuccess ==
  /\ Up /\ wpc = "locating"
  /\ wpc' = "geocoding"
  /\ last' = Last("geoSuccess", NoFile, "none", "none")
  /\ UNCHANGED <<geoResp, wxResp, weather, weatherErr>>
  /\ WeatherFrame

\* The reverse-geocode fetch settles: the catch, or the second fetch starts.
geocodeSettled(r) ==
  /\ Up /\ wpc = "geocoding"
  /\ geoResp' = r
  /\ IF geocodeThrows(r)
     THEN weatherErr' = TRUE /\ wpc' = "done"
     ELSE weatherErr' = weatherErr /\ wpc' = "fetching"
  /\ last' = Last("geocode", NoFile, "none", "none")
  /\ UNCHANGED <<wxResp, weather>>
  /\ WeatherFrame

\* The weather fetch settles: the catch, or setWeather.
weatherSettled(r) ==
  /\ Up /\ wpc = "fetching"
  /\ wxResp' = r
  /\ wpc' = "done"
  /\ IF weatherThrows(r)
     THEN weatherErr' = TRUE /\ weather' = weather
     ELSE LET cw == JSONparse(r.body).o.current_weather
              d == describeWMOOf(cw.weathercode)
          IN  /\ weather' = WeatherData(MathRoundTenths(cw.temperature), d.label, d.icon,
                                        cityOf(JSONparse(geoResp.body)))
              /\ weatherErr' = weatherErr
  /\ last' = Last("weather", NoFile, "none", "none")
  /\ UNCHANGED geoResp
  /\ WeatherFrame

----------------------------------------------------------------------------
(* Search (page.tsx 149-153, 278-283, 422).                                *)

SEARCH_URLS ==
  [google |-> "https://www.google.com/search?q=",
   ddg    |-> "https://duckduckgo.com/?q=",
   bing   |-> "https://www.bing.com/search?q="]

\* The characters of a query: white space, an unreserved character, a
\* reserved one, and an unpaired surrogate (a UTF-16 code unit that is half
\* of a pair without its other half).
WhiteSpace == {" "}
LoneSurrogate == "uD800"

\* String.prototype.trim.
RECURSIVE trimStart(_)
trimStart(s) ==
  IF s # <<>> /\ Head(s) \in WhiteSpace THEN trimStart(Tail(s)) ELSE s

RECURSIVE trimEnd(_)
trimEnd(s) ==
  IF s # <<>> /\ s[Len(s)] \in WhiteSpace THEN trimEnd(SubSeq(s, 1, Len(s) - 1)) ELSE s

trim(s) == trimEnd(trimStart(s))

\* encodeURIComponent: an unreserved character stays, any other becomes the
\* %XX escapes of its UTF-8 bytes, and an unpaired surrogate is a URIError.
Unreserved == {"a", "b", "-", "_", ".", "!", "~", "*", "'", "(", ")"}
Escape(c) ==
  CASE c = " " -> <<"%", "2", "0">>
    [] c = "&" -> <<"%", "2", "6">>
    [] c = "+" -> <<"%", "2", "B">>
    [] c = "%" -> <<"%", "2", "5">>

encodeURIComponentThrows(s) == \E i \in 1..Len(s) : s[i] = LoneSurrogate

RECURSIVE encodeURIComponent(_)
encodeURIComponent(s) ==
  IF s = <<>> THEN <<>>
  ELSE (IF Head(s) \in Unreserved THEN <<Head(s)>> ELSE Escape(Head(s)))
       \o encodeURIComponent(Tail(s))

\* A URL made of a base and the text appended to it.
Url(base, rest) == [base |-> base, rest |-> rest]

\* The input's onChange: setQuery(e.target.value).
onChange(text) ==
  /\ Up
  /\ query' = text
  /\ last' = Last("type", NoFile, "none", "none")
  /\ UNCHANGED <<page, StoreVars, settings, customThemes, PanelVars, pending, navTarget,
                 WeatherVars, RoundTripVars, drops, failures, clicks>>

\* The form's onSubmit.  An empty trimmed query returns; a URIError thrown by
\* encodeURIComponent ends the handler before the assignment; otherwise the
\* assignment to window.location.href leaves the page.
handleSearch ==
  /\ Up
  /\ LET q == trim(query)
     IN  IF q = <<>> \/ encodeURIComponentThrows(q)
         THEN UNCHANGED <<page, navTarget>>
         ELSE /\ navTarget' = <<Url(SEARCH_URLS[settings.searchEngine],
                                    encodeURIComponent(q))>>
              /\ page' = "left"
  /\ last' = Last("submit", NoFile, "none", "none")
  /\ UNCHANGED <<StoreVars, settings, customThemes, PanelVars, pending, query,
                 WeatherVars, RoundTripVars, drops, failures, clicks>>

----------------------------------------------------------------------------
(* Export, and the import of an exported file (page.tsx 496-499, 254-256). *)

RoundTripFrame ==
  UNCHANGED <<page, StoreVars, settings, customThemes, PanelVars, pending, SearchVars,
              WeatherVars, drops, failures, clicks>>

\* parseSVGTheme on the text of a dropped file.
importSvg ==
  /\ last.op = "none"
  /\ imported' = parseSVGTheme(svgIn)
  /\ last' = Last("parsed", NoFile, "none", "none")
  /\ UNCHANGED <<svgIn, exported, reimported>>
  /\ RoundTripFrame

\* handleExport on the entry the import made.
handleExport ==
  /\ last.op = "parsed" /\ imported.ok
  /\ exported' = generateSVG("theme", imported.colors)
  /\ last' = Last("exported", NoFile, "none", "none")
  /\ UNCHANGED <<svgIn, imported, reimported>>
  /\ RoundTripFrame

\* parseSVGTheme on the text of the exported file, dropped in turn.
reimportSvg ==
  /\ last.op = "exported"
  /\ reimported' = parseSVGTheme(exported)
  /\ last' = Last("reparsed", NoFile, "none", "none")
  /\ UNCHANGED <<svgIn, imported, exported>>
  /\ RoundTripFrame

----------------------------------------------------------------------------
(* Inputs.                                                                 *)

Engines == {"google", "ddg", "bing"}
TempUnits == {"C", "F"}
TimeFormats == {"24h", "12h"}

\* All sequences over S of length at most n.
RECURSIVE SeqsUpTo(_, _)
SeqsUpTo(S, n) ==
  IF n = 0 THEN {<<>>}
  ELSE LET shorter == SeqsUpTo(S, n - 1)
       IN  shorter \cup {Append(s, c) : s \in shorter, c \in S}

\* A theme file as a drawing program writes it: nine elements, each fill
\* between double quotes.
ThemeSvg(fills) ==
  [wf |-> TRUE,
   elems |-> [i \in 1..Len(ThemeKeys) |-> Elem(ThemeKeys[i], <<Attr("\"", fills[i])>>)]]

Uniform(c) == [i \in 1..Len(ThemeKeys) |-> c]
File(name, text, kind) == [name |-> name, text |-> text, kind |-> kind]

\* The files dropped: two themes named b.svg, a theme named like a built-in
\* one, and the files onDrop has to ignore.
GoodFiles ==
  { File(<<"b", ".svg">>, ThemeSvg(Uniform(<<"#", "1">>)), "theme"),
    File(<<"dark", ".svg">>, ThemeSvg(Uniform(<<"#", "2">>)), "theme") }

BadFiles ==
  { File(<<"b", ".txt">>, ThemeSvg(Uniform(<<"#", "1">>)), "notSvgName"),
    File(<<"b", ".svg">>, [ThemeSvg(Uniform(<<"#", "1">>)) EXCEPT !.wf = FALSE],
         "unparseable"),
    File(<<"b", ".svg">>,
         [ThemeSvg(Uniform(<<"#", "1">>)) EXCEPT !.elems = SubSeq(@, 1, 8)], "missingId"),
    File(<<"b", ".svg">>,
         [ThemeSvg(Uniform(<<"#", "1">>)) EXCEPT !.elems[3].fill = <<>>], "noFill"),
    File(<<"b", ".svg">>,
         [ThemeSvg(Uniform(<<"#", "1">>)) EXCEPT !.elems[5].fill = <<Attr("\"", <<>>)>>],
         "emptyFill") }

DropFiles == GoodFiles \cup BadFiles

----------------------------------------------------------------------------
(* The page with its themes and settings.                                  *)

\* Everything a page start sets, whatever storage holds.
Started ==
  /\ showSettings = FALSE
  /\ showThemeModal = FALSE
  /\ selected = ""
  /\ pending = <<>>
  /\ query = <<>>
  /\ navTarget = <<>>
  /\ wpc = "mount"
  /\ geoResp = NoResponse
  /\ wxResp = NoResponse
  /\ weather = NoWeather
  /\ weatherErr = FALSE
  /\ exported = NoSvg
  /\ imported = NoColorsYet
  /\ reimported = NoColorsYet
  /\ drops = 0
  /\ failures = 0
  /\ clicks = 0

\* The page as first loaded in a browser whose storage holds neither item.
Init ==
  /\ Started
  /\ page = "up"
  /\ hpSettings = NoItem
  /\ hpCustomThemes = NoItem
  /\ settings = initSettings(NoItem)
  /\ customThemes = initCustomThemes(NoItem)
  /\ svgIn = NoSvg
  /\ focus = "input"
  /\ last = Last("load", NoFile, "none", "none")

\* One answer of each service, for the pages that only need some weather.
ParisGeo ==
  Response(TRUE, JSONstringify(JSObject([address |-> [city |-> "Paris"]])))
MildWeather ==
  Response(TRUE, JSONstringify(JSObject(
    [current_weather |-> [temperature |-> <<204>>, weathercode |-> <<2>>]])))

\* The options chosen in the modal: two of the built-in themes, and every
\* custom one.
Selectable == {"dark", "light"} \cup ThemeNames(SpreadItems(customThemes))

Next ==
  \/ PageLoad
  \/ ToggleSettings
  \/ OutsideMouseDown
  \/ \E e \in Engines, ok \in BOOLEAN : SetSearchEngine(e, ok)
  \/ \E u \in TempUnits, ok \in BOOLEAN : SetTempUnit(u, ok)
  \/ \E f \in TimeFormats, ok \in BOOLEAN : SetTimeFormat(f, ok)
  \/ OpenThemeModal
  \/ CloseThemeModal
  \/ \E name \in Selectable, ok \in BOOLEAN : handleSelect(name, ok)
  \/ \E okC, okA, okS \in BOOLEAN : handleDelete(okC, okA, okS)
  \/ \E file \in DropFiles : onDrop(file)
  \/ \E i \in 1..Len(pending), okC, okS \in BOOLEAN : onDropRead(i, okC, okS)

Spec == Init /\ [][Next]_vars

----------------------------------------------------------------------------
(* The page with everything that saves settings: the core's operations on  *)
(* one theme file, and the weather button once the weather has arrived.    *)

PersistFiles == {f \in GoodFiles : f.name = <<"b", ".svg">>}

NextPersist ==
  \/ PageLoad
  \/ ToggleSettings
  \/ OutsideMouseDown
  \/ \E e \in Engines, ok \in BOOLEAN : SetSearchEngine(e, ok)
  \/ \E u \in TempUnits, ok \in BOOLEAN : SetTempUnit(u, ok)
  \/ \E f \in TimeFormats, ok \in BOOLEAN : SetTimeFormat(f, ok)
  \/ \E ok \in BOOLEAN : toggleTempUnit(ok)
  \/ OpenThemeModal
  \/ CloseThemeModal
  \/ \E name \in Selectable, ok \in BOOLEAN : handleSelect(name, ok)
  \/ \E okC, okA, okS \in BOOLEAN : handleDelete(okC, okA, okS)
  \/ \E file \in PersistFiles : onDrop(file)
  \/ \E i \in 1..Len(pending), okC, okS \in BOOLEAN : onDropRead(i, okC, okS)
  \/ weatherEffect(TRUE)
  \/ geoSuccess
  \/ geocodeSettled(ParisGeo)
  \/ weatherSettled(MildWeather)

SpecPersist == Init /\ [][NextPersist]_vars

----------------------------------------------------------------------------
(* The page with its weather widget: every outcome of the position request *)
(* and of the two fetches.                                                 *)

GeoBodies ==
  { GarbageText,
    JSONstringify(JSNull),
    JSONstringify(JSObject([error |-> "Too Many Requests"])),
    JSONstringify(JSObject([address |-> [city |-> "Paris"]])),
    JSONstringify(JSObject([address |-> [town |-> "Cluny", county |-> "Saone"]])),
    JSONstringify(JSObject([address |-> [village |-> "Bage"]])),
    JSONstringify(JSObject([address |-> [county |-> "Ain"]])),
    JSONstringify(JSObject([address |-> [road |-> "A6"]])) }

Temperatures == {<<-35>>, <<204>>}
WeatherCodes == {<<0>>, <<61>>, <<150>>}

WxBodies ==
  { GarbageText,
    JSONstringify(JSNull),
    JSONstringify(JSObject([error |-> "true"])),
    JSONstringify(JSObject([current_weather |-> [temperature |-> <<>>, weathercode |-> <<>>]])) }
  \cup { JSONstringify(JSObject([current_weather |-> [temperature |-> tp, weathercode |-> c]])) :
           tp \in Temperatures, c \in WeatherCodes }

GeoResponses == {NetworkError} \cup {Response(ok, b) : ok \in BOOLEAN, b \in GeoBodies}
WxResponses == {NetworkError} \cup {Response(ok, b) : ok \in BOOLEAN, b \in WxBodies}

NextWeather ==
  \/ PageLoad
  \/ \E supported \in BOOLEAN : weatherEffect(supported)
  \/ weatherTimer
  \/ geoError
  \/ geoSuccess
  \/ \E r \in GeoResponses : geocodeSettled(r)
  \/ \E r \in WxResponses : weatherSettled(r)
  \/ \E ok \in BOOLEAN : toggleTempUnit(ok)

SpecWeather == Init /\ [][NextWeather]_vars

----------------------------------------------------------------------------
(* The page with its search form.                                          *)

QueryChars == {" ", "a", "&", LoneSurrogate}
Queries == SeqsUpTo(QueryChars, MaxQueryLen)

NextSearch ==
  \/ PageLoad
  \/ ToggleSettings
  \/ \E e \in Engines, ok \in BOOLEAN : SetSearchEngine(e, ok)
  \/ \E text \in Queries : onChange(text)
  \/ handleSearch

SpecSearch == Init /\ [][NextSearch]_vars

----------------------------------------------------------------------------
(* Import, export and import again of one theme file.                      *)

FillChars == {"f", "'", "<", "&", "l", "t", ";"}
FillSources == SeqsUpTo(FillChars, MaxFillLen) \ {<<>>}

\* A theme file whose b_inv fill has the source text raw between quotes q.
ThemeSvgWith(q, raw) ==
  [ThemeSvg(Uniform(<<"#", "f">>)) EXCEPT !.elems[9].fill = <<Attr(q, raw)>>]

InitRoundTrip ==
  /\ Started
  /\ page = "up"
  /\ hpSettings = NoItem
  /\ hpCustomThemes = NoItem
  /\ settings = initSettings(NoItem)
  /\ customThemes = initCustomThemes(NoItem)
  /\ svgIn \in {ThemeSvgWith(q, raw) : q \in {"'", "\""}, raw \in FillSources}
  /\ focus = "input"
  /\ last = Last("none", NoFile, "none", "none")

NextRoundTrip ==
  \/ importSvg
  \/ handleExport
  \/ reimportSvg

SpecRoundTrip == InitRoundTrip /\ [][NextRoundTrip]_vars

----------------------------------------------------------------------------
(* The page load, on whatever the two storage items hold.                  *)

StoredSettings ==
  { NoItem, EmptyText, GarbageText,
    JSONstringify(JSNull),
    JSONstringify(JSNumber),
    JSONstringify(JSString(<<"x">>)),
    JSONstringify(JSObject(<<>>)),
    JSONstringify(JSObject([tempUnit |-> "C"])),
    JSONstringify(JSObject([tempUnit |-> "K"])),
    JSONstringify(JSObject([timeFormat |-> "12h", searchEngine |-> "yahoo"])),
    JSONstringify(JSObject([themeName |-> "ghost"])),
    JSONstringify(JSObject([tempUnit |-> "C", timeFormat |-> "12h",
                            searchEngine |-> "bing", themeName |-> "light"])) }

StoredEntry == CustomEntry("b", Colors(<<"#", "1">>, <<"#", "1">>, <<"#", "1">>,
                                       <<"#", "1">>, <<"#", "1">>, <<"#", "1">>,
                                       <<"#", "1">>, <<"#", "1">>, <<"#", "1">>))

StoredThemes ==
  { NoItem, EmptyText, GarbageText,
    JSONstringify(JSNull),
    JSONstringify(JSNumber),
    JSONstringify(JSString(<<"x">>)),
    JSONstringify(JSObject([name |-> "b"])),
    JSONstringify(JSArray(<<>>)),
    JSONstringify(JSArray(<<StoredEntry>>)),
    JSONstringify(JSArray(<<JSNull>>)),
    JSONstringify(JSArray(<<JSNumber>>)),
    JSONstringify(JSArray(<<StoredEntry, JSObject(<<>>)>>)) }

InitLoad ==
  /\ Started
  /\ page = "closed"
  /\ hpSettings \in StoredSettings
  /\ hpCustomThemes \in StoredThemes
  /\ settings = DEFAULT_SETTINGS
  /\ customThemes = JSArray(<<>>)
  /\ svgIn = NoSvg
  /\ focus = "page"
  /\ last = Last("none", NoFile, "none", "none")

NextLoad == PageLoad

SpecLoad == InitLoad /\ [][NextLoad]_vars

----------------------------------------------------------------------------
(* The weather widget, on every weather code.                              *)

CodedWeather(c) ==
  Response(TRUE, JSONstringify(JSObject(
    [current_weather |-> [temperature |-> <<204>>, weathercode |-> <<c>>]])))

NextWMO ==
  \/ PageLoad
  \/ weatherEffect(TRUE)
  \/ geoSuccess
  \/ geocodeSettled(ParisGeo)
  \/ \E c \in -MaxCode..MaxCode : weatherSettled(CodedWeather(c))

SpecWMO == Init /\ [][NextWMO]_vars

----------------------------------------------------------------------------
(* The weather widget, on every temperature.                               *)

WeatherAt(c) ==
  Response(TRUE, JSONstringify(JSObject(
    [current_weather |-> [temperature |-> <<10 * c>>, weathercode |-> <<0>>]])))

NextTemp ==
  \/ PageLoad
  \/ weatherEffect(TRUE)
  \/ geoSuccess
  \/ geocodeSettled(ParisGeo)
  \/ \E c \in -MaxTemp..MaxTemp : weatherSettled(WeatherAt(c))
  \/ \E ok \in BOOLEAN : toggleTempUnit(ok)

SpecTemp == Init /\ [][NextTemp]_vars

----------------------------------------------------------------------------
(* The page with its panels, the keyboard and the focus.                   *)

FocusTargets == {"input", "modal", "page"}

NextKeys ==
  \/ PageLoad
  \/ ToggleSettings
  \/ ToggleSettingsByKey
  \/ OutsideMouseDown
  \/ OpenThemeModal
  \/ CloseThemeModal
  \/ \E name \in Selectable, ok \in BOOLEAN : handleSelect(name, ok)
  \/ keydownEscape
  \/ \E oneChar \in BOOLEAN, metaOrCtrl \in BOOLEAN : keydownOther(oneChar, metaOrCtrl)
  \/ \E to \in FocusTargets : focusMoves(to)

SpecKeys == Init /\ [][NextKeys]_vars

----------------------------------------------------------------------------
(* Properties.                                                             *)

customNames == ThemeNames(SpreadItems(customThemes))

\* The themes and the settings that a reload would find in storage.
persistedNames ==
  IF hpCustomThemes.kind = "json" THEN ThemeNames(hpCustomThemes.val.items) ELSE {}
persistedThemeName ==
  IF hpSettings.kind = "json" THEN <<hpSettings.val.o.themeName>> ELSE <<>>

ThemeNameExists == settings.themeName \in ThemeNames(allThemes)

(* C1, as claimed: in every reachable state Settings.themeName is the name *)
(* of an entry of the built-in catalog or of the custom theme list.        *)
C1_ThemeNameAlwaysExists == Up => ThemeNameExists

(* C1, amended: every operation of a session keeps Settings.themeName the  *)
(* name of an existing entry; only a page load can produce a themeName     *)
(* that names no entry, and the active theme is then the built-in dark.    *)
C1_SessionKeepsThemeName ==
  [][/\ (Up /\ ThemeNameExists /\ last'.op # "load") => ThemeNameExists'
     /\ (Up' /\ ~ThemeNameExists') => activeTheme' = BUILTIN_THEMES[1]]_vars

\* The active custom theme was deleted while other custom themes existed,
\* and themeName names an entry.
C1_Witness ==
  /\ Up /\ last.op = "deleteActive"
  /\ customThemes.items # <<>>
  /\ ThemeNameExists

(* C2, as claimed: after the delete of the active custom theme themeName   *)
(* is "dark" in memory and in the persisted settings, and the entry is in  *)
(* neither the in-memory nor the persisted custom list.                    *)
C2_DeleteActiveEverywhere ==
  (Up /\ last.op = "deleteActive") =>
    /\ settings.themeName = "dark"
    /\ persistedThemeName = <<"dark">>
    /\ last.file.name[1] \notin customNames
    /\ last.file.name[1] \notin persistedNames

(* C2, amended: after the delete of the active custom theme themeName is   *)
(* "dark" and the entry is gone in memory; the persisted settings say      *)
(* "dark" if the settings write succeeded, and the persisted list lacks    *)
(* the entry if the list write succeeded.                                  *)
C2_DeleteActive ==
  (Up /\ last.op = "deleteActive") =>
    /\ settings.themeName = "dark"
    /\ last.file.name[1] \notin customNames
    /\ last.sw = "ok" => persistedThemeName = <<"dark">>
    /\ last.cw = "ok" => last.file.name[1] \notin persistedNames

\* The active custom theme was deleted and both writes succeeded.
C2_Witness ==
  /\ Up /\ last.op = "deleteActive"
  /\ last.cw = "ok" /\ last.sw = "ok"
  /\ persistedThemeName = <<"dark">>
  /\ hpCustomThemes.kind = "json"

NoSharedName(themes) ==
  \A i, j \in 1..Len(themes) : themes[i].name = themes[j].name => i = j

(* C3: every successful import adds an entry of its own, under a name that *)
(* no built-in or custom theme had when the import completed, so that no   *)
(* two entries of built-in and custom themes share a name.                 *)
C3_ImportsGetOwnNames ==
  [][(Up /\ last'.op = "import") =>
       /\ Len(customThemes'.items) = Len(customThemes.items) + 1
       /\ customThemes'.items[Len(customThemes'.items)].name \notin ThemeNames(allThemes)
       /\ NoSharedName(allThemesOf(customThemes'))]_vars

(* C4: a successful import leaves the custom list as it was just before    *)
(* the import completed plus one new Custom entry holding the parsed       *)
(* colours, persists that list, and makes the new entry the active theme.  *)
C4_ImportAppends ==
  [][(Up /\ last'.op = "import") =>
       LET new == customThemes'.items[Len(customThemes'.items)]
       IN  /\ customThemes'.items = Append(customThemes.items, new)
           /\ new.category = "Custom" /\ new.isCustom
           /\ new.colors = parseSVGTheme(last'.file.text).colors
           /\ last'.cw = "ok" => hpCustomThemes' = JSONstringify(customThemes')
           /\ settings'.themeName = new.name]_vars

(* C5: a dropped file that is not a theme file (wrong extension, text that *)
(* is no SVG, an identifier missing, a fill missing or empty) changes      *)
(* neither the custom list nor the settings, in memory or in storage, and  *)
(* leaves the page up.                                                     *)
C5_RejectedDropChangesNothing ==
  [][(Up /\ last'.op \in {"drop", "dropIgnored", "readIgnored", "import"}
         /\ last'.file.kind # "theme") =>
       /\ UNCHANGED <<settings, customThemes, hpSettings, hpCustomThemes>>
       /\ page' = "up"]_vars

\* A file with an identifier missing was read while a custom theme existed.
C5_Witness ==
  /\ Up /\ last.op = "readIgnored"
  /\ last.file.kind = "missingId"
  /\ customThemes.items # <<>>

(* C6: after an operation that saved settings and whose write succeeded,   *)
(* initSettings on what storage holds returns the in-memory settings.      *)
C6_ReloadReconstructsSettings ==
  (Up /\ last.sw = "ok") => initSettings(hpSettings) = settings

\* The unit was toggled from the weather widget and saved.
C6_Witness ==
  /\ Up /\ last.op = "toggleUnit" /\ last.sw = "ok"
  /\ settings.tempUnit = "C"
  /\ initSettings(hpSettings).tempUnit = "C"

IsThemeEntry(item) ==
  {"name", "display", "category", "colors"} \subseteq DOMAIN item

\* The domain of each field of Settings (page.tsx 28-33).
SettingsDomain(f) ==
  CASE f = "tempUnit" -> TempUnits
    [] f = "timeFormat" -> TimeFormats
    [] f = "searchEngine" -> Engines

\* Storage holds a settings object whose field f has a value of its domain.
ValidlyStored(f) ==
  /\ hpSettings.kind = "json"
  /\ hpSettings.val.t = "object"
  /\ f \in DOMAIN hpSettings.val.o
  /\ f # "themeName" => hpSettings.val.o[f] \in SettingsDomain(f)

(* C7: whatever the two storage items hold, the page load does not fail,   *)
(* the loaded settings have every field in its domain, with the default    *)
(* for each field that was not validly stored, and the loaded custom list  *)
(* is a list of theme entries.                                             *)
C7_LoadFallsBackToDefaults ==
  page # "closed" =>
    /\ page = "up"
    /\ \A f \in {"tempUnit", "timeFormat", "searchEngine"} :
         settings[f] \in SettingsDomain(f)
    /\ \A f \in DOMAIN DEFAULT_SETTINGS :
         ~ValidlyStored(f) => settings[f] = DEFAULT_SETTINGS[f]
    /\ customThemes.t = "array"
    /\ \A i \in 1..Len(customThemes.items) : IsThemeEntry(customThemes.items[i])

(* C8: the colours parsed from a theme file, exported with generateSVG and *)
(* parsed again, come back non-null and equal on all 9 keys.               *)
C8_RoundTripIsLossless ==
  last.op = "reparsed" =>
    /\ reimported.ok
    /\ \A k \in DOMAIN imported.colors : reimported.colors[k] = imported.colors[k]

\* A request failed: a network error, a response that is not a success, or
\* a body that is not JSON of the expected shape.
NotJSONObject(r) ==
  \/ JSONparseThrows(r.body)
  \/ JSONparse(r.body) = JSNull
  \/ JSONparse(r.body).t # "object"
geocodeFailed ==
  /\ geoResp # NoResponse
  /\ \/ geoResp.kind = "networkError"
     \/ ~geoResp.ok
     \/ NotJSONObject(geoResp)
weatherFailed ==
  /\ wxResp # NoResponse
  /\ \/ wxResp.kind = "networkError"
     \/ ~wxResp.ok
     \/ NotJSONObject(wxResp)
     \/ "current_weather" \notin DOMAIN JSONparse(wxResp.body).o
     \/ JSONparse(wxResp.body).o.current_weather.temperature = <<>>
     \/ JSONparse(wxResp.body).o.current_weather.weathercode = <<>>
geolocationFailed == wpc = "done" /\ geoResp = NoResponse

(* C9: once geolocation has failed, or the reverse-geocode request or the  *)
(* weather request has failed, the widget shows "weather unavailable" in   *)
(* every later state of the session, and never weather data.               *)
C9_FailureIsTerminal ==
  (Up /\ (geolocationFailed \/ geocodeFailed \/ weatherFailed)) =>
    weatherDisplay = "unavailable"

\* s without its leading and trailing white space.
Stripped(s) ==
  LET inked == {i \in 1..Len(s) : s[i] \notin WhiteSpace}
      Lo == CHOOSE i \in inked : \A j \in inked : i <= j
      Hi == CHOOSE i \in inked : \A j \in inked : j <= i
  IN  IF inked = {} THEN <<>> ELSE SubSeq(s, Lo, Hi)

\* The text that a percent-encoded text stands for.
Octet(hi, lo) ==
  CASE <<hi, lo>> = <<"2", "0">> -> " "
    [] <<hi, lo>> = <<"2", "6">> -> "&"
    [] <<hi, lo>> = <<"2", "B">> -> "+"
    [] <<hi, lo>> = <<"2", "5">> -> "%"
RECURSIVE PercentDecode(_)
PercentDecode(e) ==
  IF e = <<>> THEN <<>>
  ELSE IF Head(e) = "%" THEN <<Octet(e[2], e[3])>> \o PercentDecode(SubSeq(e, 4, Len(e)))
  ELSE <<Head(e)>> \o PercentDecode(Tail(e))
IsPercentEncoded(e) ==
  \A i \in 1..Len(e) : e[i] \in Unreserved \cup {"%", "0", "2", "5", "6", "B"}

(* C10: a submit with a query that is empty once trimmed navigates nowhere *)
(* and changes no state; a submit with any other query navigates once, to  *)
(* the base URL of Settings.searchEngine followed by the percent-encoded   *)
(* trimmed query.                                                          *)
C10_SubmitNavigates ==
  [][(Up /\ last'.op = "submit") =>
       IF Stripped(query) = <<>>
       THEN UNCHANGED <<page, StoreVars, settings, customThemes, PanelVars, pending,
                        SearchVars, WeatherVars, RoundTripVars>>
       ELSE /\ page' = "left"
            /\ navTarget' # <<>>
            /\ navTarget'[1].base = SEARCH_URLS[settings.searchEngine]
            /\ IsPercentEncoded(navTarget'[1].rest)
            /\ PercentDecode(navTarget'[1].rest) = Stripped(query)]_vars

\* The label of the documented bucket of a weather code.
DocumentedLabel(c) ==
  CASE c = 0 -> "clear"
    [] c \in 1..2 -> "partly cloudy"
    [] c = 3 -> "overcast"
    [] c \in 4..49 -> "foggy"
    [] c \in 50..59 -> "drizzle"
    [] c \in 60..69 -> "rain"
    [] c \in 70..79 -> "snow"
    [] c \in 80..84 -> "showers"
    [] c \in 85..99 -> "storm"
    [] OTHER -> "unknown"

(* C11: for every integer weather code, negative ones and ones above 99    *)
(* included, describeWMO returns the label of the documented bucket, and   *)
(* the widget shows it.                                                    *)
C11_DocumentedBuckets ==
  (Up /\ last.op = "weather" /\ weather # NoWeather) =>
    LET c == JSONparse(wxResp.body).o.current_weather.weathercode[1]
    IN  /\ describeWMO(c).label = DocumentedLabel(c)
        /\ weather.condition = DocumentedLabel(c)

(* C12: after an Escape keydown, in whatever state the panels and the     *)
(* focus were, neither the settings panel nor the theme modal is open and  *)
(* the search input has focus.                                             *)
C12_EscapeClosesAndFocuses ==
  (Up /\ last.op = "escape") =>
    /\ ~showSettings
    /\ ~showThemeModal
    /\ focus = "input"

(* C13: for every integer Celsius temperature c of -50..60, the           *)
(* Fahrenheit value f that displayTemp shows for c, converted back with    *)
(* round((f - 32) * 5/9), is within 1 degree of c.                         *)
C13_FahrenheitAndBack ==
  (Up /\ weather # NoWeather /\ settings.tempUnit = "F"
      /\ weather.temp[1] \in -50..60) =>
    LET c == weather.temp[1]
        f == shownTemp.n
        \* round(x) = floor(x + 1/2), with x = (f - 32) * 5/9
        back == (10 * (f - 32) + 9) \div 18
    IN  /\ shownTemp.unit = "F"
        /\ back - c \in -1..1

\* 37 degrees Celsius are shown as 99 degrees Fahrenheit (98.6 rounded).
C13_Witness ==
  /\ Up /\ weather # NoWeather /\ settings.tempUnit = "F"
  /\ weather.temp = <<37>>
  /\ shownTemp = [n |-> 99, unit |-> "F"]

\* The suspended onDrop call that a step resumed ran in the closure of the
\* current render: nothing was saved between its drop and the end of its read.
ResumedInCurrentRender ==
  \A i \in 1..Len(pending) :
    pending' = RemoveAt(pending, i) =>
      pending[i].customThemes = customThemes /\ pending[i].settings = settings

\* What each saving operation makes of the in-memory settings and list.
MemoryAfter(op) ==
  CASE op = "setting" ->
         /\ customThemes' = customThemes
         /\ settings'.themeName = settings.themeName
         /\ Cardinality({f \in DOMAIN settings : settings'[f] # settings[f]}) <= 1
    [] op = "toggleUnit" ->
         /\ customThemes' = customThemes
         /\ settings' = [settings EXCEPT !.tempUnit = IF @ = "F" THEN "C" ELSE "F"]
    [] op = "select" ->
         /\ customThemes' = customThemes
         /\ settings' = [settings EXCEPT !.themeName = selected']
    [] op \in {"deleteActive", "deleteOther"} ->
         /\ ThemeNames(customThemes'.items)
              = ThemeNames(customThemes.items) \ {last'.file.name[1]}
         /\ Len(customThemes'.items) = Len(customThemes.items) - 1
         /\ \A f \in DOMAIN settings \ {"themeName"} : settings'[f] = settings[f]
    [] op = "import" ->
         ResumedInCurrentRender =>
           /\ customThemes'.items
                = Append(customThemes.items,
                         CustomEntry(settings'.themeName,
                                     parseSVGTheme(last'.file.text).colors))
           /\ settings' = [settings EXCEPT !.themeName = settings'.themeName]
    [] OTHER -> UNCHANGED <<settings, customThemes>>

C15_DeleteOtherKeepsActiveTheme ==
  [][(Up /\ last'.op = "deleteOther") =>
       /\ customThemes'.items = SelectSeq(customThemes.items,
                                          LAMBDA e : e.name # last'.file.name[1])
       /\ settings'.themeName = settings.themeName
       /\ activeTheme' = activeTheme]_vars

(* C16: the completion of an SVG import changes no field of Settings but  *)
(* themeName: tempUnit, timeFormat and searchEngine keep the values they   *)
(* had just before it, also when one of them was changed between the drop  *)
(* and the end of the file read.                                           *)
C16_ImportKeepsOtherSettings ==
  [][(Up /\ last'.op = "import") =>
       \A f \in {"tempUnit", "timeFormat", "searchEngine"} :
         settings'[f] = settings[f]]_vars

====
